---- MODULE Spec2Model ----
(***************************************************************************)
(* Order / order-item workflow of the orders module (models.py, views.py,  *)
(* ai_tools.py, services/order_service.py).                                *)
(*                                                                         *)
(* The database is the pair of tables `orders` and `items` (sequences of   *)
(* rows, the primary key being the index).  Amounts are in cents.          *)
(* Timestamps are readings of `clock`; NoTime is a NULL timestamp.         *)
(***************************************************************************)
EXTENDS Integers, Sequences, FiniteSets, TLC

\* ---------------------------------------------------------------- bounds
MaxOrders == 2
MaxItems == 3
MaxClock == 2
MaxQty == 2
MaxNotes == 1
MaxReq == 4
ConcItems == 2
ConcSetup == 2
NumHubs == 2

\* NULL of a DateTimeField(null=True)
NoTime == 0

VARIABLES
    orders,   \* table orders_order: Seq of order rows
    items,    \* table orders_order_item: Seq of item rows
    clock,    \* timezone.now()
    last,     \* the request that ran last: [op, order, item]
    nreq,     \* requests served so far
    procs,    \* in-flight requests (concurrent specifications)
    base,     \* the tables when the in-flight pair of requests started
    env       \* what the read-only operations see: settings, stations,
              \* mappings and products, an instance in memory

vars == <<orders, items, clock, last, nreq, procs, base, env>>

OrderStatuses == {"pending", "preparing", "ready", "served", "paid", "cancelled"}
ItemStatuses == {"pending", "preparing", "ready", "served", "cancelled"}
Hubs == 1..NumHubs
Reasons == {"", "left"}
Prices == {0, 350}

\* _hub_id(request): the tenant of the session
SessionHub == 1
\* quantity = models.PositiveIntegerField(default=1)
DefaultQty == 1
\* the price the kitchen-workflow requests put on an item
MenuPrices == {350}
MenuPrice == CHOOSE p \in MenuPrices : TRUE
Taxes == {0, 35}
Discounts == {0, 50}

DB == [orders |-> orders, items |-> items]

\* ------------------------------------------------------- rows and queries
NewOrder(hub, number) ==
    [hub |-> hub, number |-> number, status |-> "pending",
     priority |-> "normal", notes |-> <<>>,
     subtotal |-> 0, tax |-> 0, discount |-> 0, total |-> 0,
     fired_at |-> NoTime, ready_at |-> NoTime, served_at |-> NoTime,
     is_deleted |-> FALSE]

NewItem(o, price, qty) ==
    [order |-> o, status |-> "pending", product |-> 0, station |-> 0,
     product_name |-> "item", unit_price |-> price,
     quantity |-> qty, total |-> 0, fired_at |-> NoTime, started_at |-> NoTime,
     completed_at |-> NoTime, is_deleted |-> FALSE]

\* order.items.filter(is_deleted=False)
LiveItems(db, o) ==
    {i \in DOMAIN db.items : db.items[i].order = o /\ ~db.items[i].is_deleted}

\* get_object_or_404(Order, pk=order_id, hub_id=hub, is_deleted=False)
GetOrder(db) == {o \in DOMAIN db.orders : ~db.orders[o].is_deleted}

\* get_object_or_404(OrderItem, pk=item_id, hub_id=hub, is_deleted=False)
GetItem(db) == {i \in DOMAIN db.items : ~db.items[i].is_deleted}

\* Model.save(update_fields=fields): only the named columns are written
SaveOrder(db, o, inst, fields) ==
    [db EXCEPT !.orders[o] =
        [f \in DOMAIN @ |-> IF f \in fields THEN inst[f] ELSE @[f]]]

SaveItem(db, i, inst, fields) ==
    [db EXCEPT !.items[i] =
        [f \in DOMAIN @ |-> IF f \in fields THEN inst[f] ELSE @[f]]]

\* QuerySet.update(**changes) on the rows in `sel`: one UPDATE statement
UpdateItems(db, sel, changes) ==
    [db EXCEPT !.items =
        [i \in DOMAIN @ |->
            IF i \in sel
            THEN [f \in DOMAIN @[i] |->
                    IF f \in DOMAIN changes THEN changes[f] ELSE @[i][f]]
            ELSE @[i]]]

\* ------------------------------------------------ Order methods (models.py)
\* Each method acts on an in-memory instance `inst` of order o and on the
\* tables; the *Assign operators are the in-memory assignments, the others
\* the statements that write.

\* Mutant of FireItems: the status='pending' filter is dropped.
FireItems_AllLive(db, o, now) ==
    UpdateItems(db, LiveItems(db, o), [status |-> "preparing", fired_at |-> now])

\* Mutant of FireItems: the cascade forgets fired_at.
FireItems_NoStamp(db, o, now) ==
    UpdateItems(db,
        {i \in LiveItems(db, o) : db.items[i].status = "pending"},
        [status |-> "preparing"])

\* Order.fire: the cascade (one UPDATE)
FireItems(db, o, now) ==
    UpdateItems(db,
        {i \in LiveItems(db, o) : db.items[i].status = "pending"},
        [status |-> "preparing", fired_at |-> now])

FireAssign(inst, now) == [inst EXCEPT !.fired_at = now, !.status = "preparing"]

FireSave(db, o, inst) == SaveOrder(db, o, inst, {"fired_at", "status"})

Order_fire(db, o, inst, now) ==
    FireItems(FireSave(db, o, FireAssign(inst, now)), o, now)

\* Order.mark_ready
MarkReadyAssign(inst, now) == [inst EXCEPT !.status = "ready", !.ready_at = now]

Order_mark_ready(db, o, inst, now) ==
    SaveOrder(db, o, MarkReadyAssign(inst, now), {"status", "ready_at"})

\* Order.mark_served
MarkServedAssign(inst, now) ==
    [inst EXCEPT !.status = "served", !.served_at = now]

Order_mark_served(db, o, inst, now) ==
    SaveOrder(db, o, MarkServedAssign(inst, now), {"status", "served_at"})

\* Order.cancel: notes is the list of the reasons appended so far
CancelAssign(inst, reason) ==
    [inst EXCEPT !.status = "cancelled",
                 !.notes = IF reason # "" THEN Append(@, reason) ELSE @]

CancelSave(db, o, inst) == SaveOrder(db, o, inst, {"status", "notes"})

\* Mutant of CancelItems: only the items still in the kitchen are cancelled.
CancelItems_ActiveOnly(db, o) ==
    UpdateItems(db,
        {i \in LiveItems(db, o) : db.items[i].status \in {"pending", "preparing"}},
        [status |-> "cancelled"])

CancelItems(db, o) == UpdateItems(db, LiveItems(db, o), [status |-> "cancelled"])

Order_cancel(db, o, inst, reason) ==
    CancelItems(CancelSave(db, o, CancelAssign(inst, reason)), o)

\* Mutant of RecallGuard: a served order is recalled too.
RecallGuard_ReadyOrServed(inst) == inst.status \in {"ready", "served"}

\* Order.recall
RecallGuard(inst) == inst.status = "ready"

RecallAssign(inst) == [inst EXCEPT !.status = "preparing", !.ready_at = NoTime]

RecallSave(db, o, inst) == SaveOrder(db, o, inst, {"status", "ready_at"})

\* Mutant of RecallItems: completed_at is kept.
RecallItems_KeepCompleted(db, o) ==
    UpdateItems(db,
        {i \in LiveItems(db, o) : db.items[i].status = "ready"},
        [status |-> "preparing"])

RecallItems(db, o) ==
    UpdateItems(db,
        {i \in LiveItems(db, o) : db.items[i].status = "ready"},
        [status |-> "preparing", completed_at |-> NoTime])

Order_recall(db, o, inst) ==
    IF RecallGuard(inst)
    THEN RecallItems(RecallSave(db, o, RecallAssign(inst)), o)
    ELSE db

\* --------------------------------------------- OrderItem methods (models.py)
\* OrderItem.start_preparing
Item_start_preparing(db, i, now) ==
    SaveItem(db, i, [db.items[i] EXCEPT !.status = "preparing", !.started_at = now],
             {"status", "started_at"})

\* OrderItem.mark_ready: the item's own save
ItemReadySave(db, i, now) ==
    SaveItem(db, i, [db.items[i] EXCEPT !.status = "ready", !.completed_at = now],
             {"status", "completed_at"})

\* Mutant of PendingExists: soft-deleted siblings are counted too.
PendingExists_WithDeleted(db, o) ==
    \E j \in DOMAIN db.items :
        /\ db.items[j].order = o
        /\ db.items[j].status \notin {"ready", "served", "cancelled"}

\* OrderItem.mark_ready: the sibling query
\* self.order.items.filter(is_deleted=False).exclude(status__in=[...]).exists()
PendingExists(db, o) ==
    \E j \in LiveItems(db, o) :
        db.items[j].status \notin {"ready", "served", "cancelled"}

\* Mutant of Item_mark_ready: the sibling query and the rollup are left out.
Item_mark_ready_NoRollup(db, i, now) == ItemReadySave(db, i, now)

\* Mutant of Item_mark_ready: the order is marked ready without the query.
Item_mark_ready_Always(db, i, now) ==
    LET d1 == ItemReadySave(db, i, now)
        o == db.items[i].order
    IN Order_mark_ready(d1, o, d1.orders[o], now)

Item_mark_ready(db, i, now) ==
    LET d1 == ItemReadySave(db, i, now)
        o == db.items[i].order
    IN IF ~PendingExists(d1, o)
       THEN Order_mark_ready(d1, o, d1.orders[o], now)
       ELSE d1

\* Mutant of Item_cancel: cancelling the last active item cancels the order.
Item_cancel_Rollup(db, i) ==
    LET d1 == SaveItem(db, i, [db.items[i] EXCEPT !.status = "cancelled"], {"status"})
        o == db.items[i].order
    IN IF ~PendingExists(d1, o)
       THEN SaveOrder(d1, o, [d1.orders[o] EXCEPT !.status = "cancelled"], {"status"})
       ELSE d1

\* OrderItem.cancel
Item_cancel(db, i) ==
    SaveItem(db, i, [db.items[i] EXCEPT !.status = "cancelled"], {"status"})

\* -------------------------------------------------------------- amounts
RECURSIVE SumTotals(_, _)
SumTotals(its, sel) ==
    IF sel = {} THEN 0
    ELSE LET i == CHOOSE x \in sel : TRUE
         IN its[i].total + SumTotals(its, sel \ {i})

\* Mutant of calculate_totals: soft-deleted items are summed too.
calculate_totals_WithDeleted(db, o, inst) ==
    LET sub == SumTotals(db.items, {i \in DOMAIN db.items : db.items[i].order = o})
    IN [inst EXCEPT !.subtotal = sub, !.total = sub - inst.discount + inst.tax]

\* Order.calculate_totals (in memory)
calculate_totals(db, o, inst) ==
    LET sub == SumTotals(db.items, LiveItems(db, o))
    IN [inst EXCEPT !.subtotal = sub, !.total = sub - inst.discount + inst.tax]

\* OrderItem.save (no product reference): total = unit_price * quantity
ItemSaveAssign(inst) == [inst EXCEPT !.total = inst.unit_price * inst.quantity]

ItemFullSave(db, i, inst) ==
    LET v == ItemSaveAssign(inst)
    IN IF i \in DOMAIN db.items
       THEN [db EXCEPT !.items[i] = v]
       ELSE [db EXCEPT !.items = Append(@, v)]

\* order.calculate_totals(); order.save(update_fields=['subtotal', 'total', ..])
SaveTotals(db, o, inst) ==
    SaveOrder(db, o, calculate_totals(db, o, inst), {"subtotal", "total"})

\* Mutant of ClampQuantity: the floor is 0, not 1.
ClampQuantity_Zero(n) == IF n < 0 THEN 0 ELSE n

\* max(1, int(quantity))
ClampQuantity(n) == IF n < 1 THEN 1 ELSE n

\* the integers a request sends as quantity
QtyInputs == -1..MaxQty

\* ------------------------------------------------------ order numbers
\* An order_number is "<prefix>-<counter>"; within one calendar day the prefix
\* is the same for all, and `number` is the counter part: its string of
\* decimal digits.
PadWidth == 4

RECURSIVE Digits(_)
Digits(n) == IF n < 10 THEN <<n>> ELSE Append(Digits(n \div 10), n % 10)

\* f"{num:04d}"
FormatCounter(n) ==
    LET d == Digits(n)
    IN IF Len(d) >= PadWidth THEN d
       ELSE [k \in 1..(PadWidth - Len(d)) |-> 0] \o d

\* int(last.order_number.split('-')[-1])
RECURSIVE ParseCounter(_)
ParseCounter(s) ==
    IF s = <<>> THEN 0
    ELSE ParseCounter(SubSeq(s, 1, Len(s) - 1)) * 10 + s[Len(s)]

\* s sorts before t as strings (the order of order_by('order_number'))
StrLess(s, t) ==
    \/ \E k \in 1..Len(s) :
          /\ k <= Len(t)
          /\ \A j \in 1..(k - 1) : s[j] = t[j]
          /\ s[k] < t[k]
    \/ /\ Len(s) < Len(t)
       /\ \A j \in 1..Len(s) : s[j] = t[j]

\* Order.generate_order_number: all_objects also sees soft-deleted orders;
\* the last order is the first by descending order_number
generate_order_number(db, hub) ==
    LET rows == {o \in DOMAIN db.orders : db.orders[o].hub = hub}
    IN IF rows = {} THEN FormatCounter(1)
       ELSE LET l == CHOOSE o \in rows :
                        \A x \in rows :
                            ~StrLess(db.orders[o].number, db.orders[x].number)
            IN FormatCounter(ParseCounter(db.orders[l].number) + 1)

\* ------------------------------------------------------------ requests
\* One request served from start to end, nothing else running in between.
Commit(db, op, o, i) ==
    /\ nreq < MaxReq
    /\ nreq' = nreq + 1
    /\ orders' = db.orders
    /\ items' = db.items
    /\ last' = [op |-> op, order |-> o, item |-> i]
    /\ UNCHANGED <<clock, procs, base, env>>

Tick ==
    /\ clock < MaxClock
    /\ clock' = clock + 1
    /\ UNCHANGED <<orders, items, last, nreq, procs, base, env>>

\* views.api_create_order
ApiCreateOrder(hub, n, price, qty) ==
    /\ Len(orders) < MaxOrders
    /\ Len(items) + n <= MaxItems
    /\ LET o == Len(orders) + 1
           d0 == [DB EXCEPT !.orders =
                    Append(@, NewOrder(hub, generate_order_number(DB, hub)))]
           d1 == [d0 EXCEPT !.items =
                    @ \o [k \in 1..n |-> ItemSaveAssign(NewItem(o, price, qty))]]
       IN Commit(SaveTotals(d1, o, d1.orders[o]), "api_create_order", o, 0)

\* views.order_create
order_create(db, hub) ==
    [db EXCEPT !.orders = Append(@, NewOrder(hub, generate_order_number(db, hub)))]

OrderCreate(hub) ==
    /\ Len(orders) < MaxOrders
    /\ Commit(order_create(DB, hub), "order_create", Len(orders) + 1, 0)

\* views.add_item
AddItem(o, price, qty) ==
    /\ o \in GetOrder(DB)
    /\ Len(items) < MaxItems
    /\ LET i == Len(items) + 1
           d1 == ItemFullSave(DB, i, NewItem(o, price, qty))
       IN Commit(SaveTotals(d1, o, DB.orders[o]), "add_item", o, i)

\* views.update_item_quantity (a present quantity parameter)
UpdateItemQuantity(o, i, n) ==
    /\ o \in GetOrder(DB)
    /\ i \in GetItem(DB) /\ items[i].order = o
    /\ LET d1 == ItemFullSave(DB, i, [items[i] EXCEPT !.quantity = ClampQuantity(n)])
       IN Commit(SaveTotals(d1, o, DB.orders[o]), "update_item_quantity", o, i)

\* views.remove_item
RemoveItem(o, i) ==
    /\ o \in GetOrder(DB)
    /\ i \in GetItem(DB) /\ items[i].order = o
    /\ LET d1 == SaveItem(DB, i, [items[i] EXCEPT !.is_deleted = TRUE], {"is_deleted"})
       IN Commit(SaveTotals(d1, o, DB.orders[o]), "remove_item", o, i)

\* views.order_delete
OrderDelete(o) ==
    /\ o \in GetOrder(DB)
    /\ Commit(SaveOrder(DB, o, [orders[o] EXCEPT !.is_deleted = TRUE], {"is_deleted"}),
              "order_delete", o, 0)

\* views.fire_order, UpdateOrderStatus 'fire', OrderService.fire_order
FireOrder(o) ==
    /\ o \in GetOrder(DB)
    /\ Commit(Order_fire(DB, o, orders[o], clock), "fire", o, 0)

\* Mutant of BumpItems: the items not yet fired are passed over.
BumpItems_PreparingOnly(db, o, now) ==
    UpdateItems(db,
        {i \in LiveItems(db, o) : db.items[i].status = "preparing"},
        [status |-> "ready", completed_at |-> now])

\* Mutant of BumpItems: the status filter is dropped.
BumpItems_AllLive(db, o, now) ==
    UpdateItems(db, LiveItems(db, o), [status |-> "ready", completed_at |-> now])

\* views.bump_order
BumpItems(db, o, now) ==
    UpdateItems(db,
        {i \in LiveItems(db, o) : db.items[i].status \in {"pending", "preparing"}},
        [status |-> "ready", completed_at |-> now])

bump_order(db, o, now) ==
    Order_mark_ready(BumpItems(db, o, now), o, db.orders[o], now)

BumpOrder(o) ==
    /\ o \in GetOrder(DB)
    /\ Commit(bump_order(DB, o, clock), "bump_order", o, 0)

\* views.recall_order, UpdateOrderStatus 'recall'
RecallOrder(o) ==
    /\ o \in GetOrder(DB)
    /\ Commit(Order_recall(DB, o, orders[o]), "recall", o, 0)

\* views.serve_order, UpdateOrderStatus 'mark_served'
ServeOrder(o) ==
    /\ o \in GetOrder(DB)
    /\ Commit(Order_mark_served(DB, o, orders[o], clock), "mark_served", o, 0)

\* UpdateOrderStatus 'mark_ready'
ToolMarkReady(o) ==
    /\ o \in GetOrder(DB)
    /\ Commit(Order_mark_ready(DB, o, orders[o], clock), "mark_ready", o, 0)

\* views.cancel_order: rejects (400) a paid or cancelled order
CancelRejected(inst) == inst.status \in {"paid", "cancelled"}

cancel_order(db, o, reason) ==
    IF CancelRejected(db.orders[o]) THEN db
    ELSE Order_cancel(db, o, db.orders[o], reason)

CancelOrderView(o, reason) ==
    /\ o \in GetOrder(DB)
    /\ reason # "" => Len(orders[o].notes) < MaxNotes
    /\ Commit(cancel_order(DB, o, reason),
              IF CancelRejected(orders[o]) THEN "cancel_order_rejected"
              ELSE "cancel_order", o, 0)

\* UpdateOrderStatus 'cancel', OrderService.cancel_order: Order.cancel directly
CancelOrderDirect(o, reason) ==
    /\ o \in GetOrder(DB)
    /\ reason # "" => Len(orders[o].notes) < MaxNotes
    /\ Commit(Order_cancel(DB, o, orders[o], reason), "cancel", o, 0)

\* views.update_status
UpdateStatus(o, st) ==
    /\ o \in GetOrder(DB)
    /\ Commit(SaveOrder(DB, o, [orders[o] EXCEPT !.status = st], {"status"}),
              "update_status", o, 0)

\* views.bump_item, views.mark_item_ready, OrderService.bump_item
BumpItem(i) ==
    /\ i \in GetItem(DB)
    /\ Commit(Item_mark_ready(DB, i, clock), "item_mark_ready", items[i].order, i)

\* views.cancel_item, OrderService.cancel_item
CancelItem(i) ==
    /\ i \in GetItem(DB)
    /\ Commit(Item_cancel(DB, i), "item_cancel", items[i].order, i)

\* OrderItem.start_preparing
StartPreparing(i) ==
    /\ i \in GetItem(DB)
    /\ Commit(Item_start_preparing(DB, i, clock), "item_start_preparing",
              items[i].order, i)

\* views.modify_item_quantity, OrderService.modify_item_quantity
ModifyItemQuantity(i, n) ==
    /\ i \in GetItem(DB)
    /\ Commit(ItemFullSave(DB, i, [items[i] EXCEPT !.quantity = ClampQuantity(n)]),
              "modify_item_quantity", items[i].order, i)

\* admin.OrderAdmin: the change form saves the amounts typed in
AdminSetAmounts(o, tax, discount) ==
    /\ o \in DOMAIN orders
    /\ <<tax, discount>> # <<orders[o].tax, orders[o].discount>>
    /\ Commit(SaveOrder(DB, o, [orders[o] EXCEPT !.tax = tax, !.discount = discount],
                        {"tax", "discount"}),
              "admin_set_amounts", o, 0)

\* --------------------------------------------------------- specification
NoProcs == <<>>
NoBase == [started |-> FALSE, db |-> [orders |-> <<>>, items |-> <<>>]]
NoEnv == <<>>

Init ==
    /\ orders = <<>>
    /\ items = <<>>
    /\ clock = 1
    /\ last = [op |-> "init", order |-> 0, item |-> 0]
    /\ nreq = 0
    /\ procs = NoProcs
    /\ base = NoBase
    /\ env = NoEnv

Next ==
    \/ Tick
    \/ \E n \in 1..MaxItems, p \in MenuPrices :
          ApiCreateOrder(SessionHub, n, p, DefaultQty)
    \/ OrderCreate(SessionHub)
    \/ \E o \in DOMAIN orders, p \in MenuPrices : AddItem(o, p, DefaultQty)
    \/ \E o \in DOMAIN orders : FireOrder(o)
    \/ \E o \in DOMAIN orders : BumpOrder(o)
    \/ \E o \in DOMAIN orders : RecallOrder(o)
    \/ \E o \in DOMAIN orders : ServeOrder(o)
    \/ \E o \in DOMAIN orders : ToolMarkReady(o)
    \/ \E o \in DOMAIN orders, r \in Reasons : CancelOrderView(o, r)
    \/ \E o \in DOMAIN orders, r \in Reasons : CancelOrderDirect(o, r)
    \/ \E o \in DOMAIN orders, st \in OrderStatuses : UpdateStatus(o, st)
    \/ \E o \in DOMAIN orders : OrderDelete(o)
    \/ \E o \in DOMAIN orders, i \in DOMAIN items : RemoveItem(o, i)
    \/ \E i \in DOMAIN items : BumpItem(i)
    \/ \E i \in DOMAIN items : CancelItem(i)
    \/ \E i \in DOMAIN items : StartPreparing(i)
    \/ \E i \in DOMAIN items, n \in QtyInputs : ModifyItemQuantity(i, n)
    \/ \E o \in DOMAIN orders, i \in DOMAIN items, n \in QtyInputs :
          UpdateItemQuantity(o, i, n)

Spec == Init /\ [][Next]_vars

\* The requests that touch amounts, with every price and quantity.
NextMoney ==
    \/ \E n \in 1..MaxItems, p \in Prices, q \in 1..MaxQty :
          ApiCreateOrder(SessionHub, n, p, q)
    \/ \E o \in DOMAIN orders, p \in Prices, q \in 1..MaxQty : AddItem(o, p, q)
    \/ \E o \in DOMAIN orders, i \in DOMAIN items, n \in QtyInputs :
          UpdateItemQuantity(o, i, n)
    \/ \E i \in DOMAIN items, n \in QtyInputs : ModifyItemQuantity(i, n)
    \/ \E o \in DOMAIN orders, i \in DOMAIN items : RemoveItem(o, i)
    \/ \E i \in DOMAIN items : CancelItem(i)
    \/ \E o \in DOMAIN orders, t \in Taxes, d \in Discounts :
          AdminSetAmounts(o, t, d)

SpecMoney == Init /\ [][NextMoney]_vars


\* ------------------------------------------------- requests in flight
\* No view but api_create_order opens a transaction and none locks a row
\* (no select_for_update): a request is the sequence of its statements, each
\* reading or writing the tables as they are at that moment.  procs[p] is the
\* request worker p is serving: its place (pc), its in-memory Order instance
\* (inst) and the clock reading it holds (now).
Workers == 1..2

IdleProc ==
    [pc |-> "idle", op |-> "", order |-> 0, item |-> 0, reason |-> "",
     inst |-> NewOrder(SessionHub, <<>>), now |-> NoTime, hub |-> 0,
     number |-> <<>>]

Request(op, o, i, reason) ==
    [IdleProc EXCEPT !.pc = "load", !.op = op, !.order = o, !.item = i,
                     !.reason = reason]

ConcRequests ==
    {Request(op, o, 0, "") :
        op \in {"fire", "recall", "mark_served", "bump_order"}, o \in GetOrder(DB)}
    \cup {Request("cancel_order", o, 0, "left") : o \in GetOrder(DB)}
    \cup {Request("item_mark_ready", items[i].order, i, "") : i \in GetItem(DB)}

\* The whole request, served alone
RunView(r, db, now) ==
    CASE r.op = "fire" -> Order_fire(db, r.order, db.orders[r.order], now)
      [] r.op = "recall" -> Order_recall(db, r.order, db.orders[r.order])
      [] r.op = "mark_served" ->
            Order_mark_served(db, r.order, db.orders[r.order], now)
      [] r.op = "bump_order" -> bump_order(db, r.order, now)
      [] r.op = "cancel_order" -> cancel_order(db, r.order, r.reason)
      [] r.op = "item_mark_ready" -> Item_mark_ready(db, r.item, now)

StartPair ==
    /\ ~base.started
    /\ \E r1, r2 \in ConcRequests :
          /\ procs' = <<r1, r2>>
          /\ base' = [started |-> TRUE, db |-> DB]
    /\ UNCHANGED <<orders, items, clock, last, nreq, env>>

Write(db) ==
    /\ orders' = db.orders
    /\ items' = db.items
    /\ UNCHANGED <<clock, last, nreq, base, env>>

Goto(p, pc) == procs' = [procs EXCEPT ![p].pc = pc]

\* get_object_or_404(...) and the checks made on the loaded instance
Load(p) ==
    /\ procs[p].pc = "load"
    /\ LET r == procs[p]
           inst == orders[r.order]
       IN procs' = [procs EXCEPT ![p] =
            CASE r.op = "fire" -> [r EXCEPT !.pc = "fire_now", !.inst = inst]
              [] r.op = "recall" ->
                    IF RecallGuard(inst)
                    THEN [r EXCEPT !.pc = "recall_save", !.inst = RecallAssign(inst)]
                    ELSE [r EXCEPT !.pc = "done", !.inst = inst]
              [] r.op = "mark_served" -> [r EXCEPT !.pc = "served_save", !.inst = inst]
              [] r.op = "bump_order" -> [r EXCEPT !.pc = "bump_items", !.inst = inst]
              [] r.op = "cancel_order" ->
                    IF CancelRejected(inst)
                    THEN [r EXCEPT !.pc = "done", !.inst = inst]
                    ELSE [r EXCEPT !.pc = "cancel_save",
                                   !.inst = CancelAssign(inst, r.reason)]
              [] r.op = "item_mark_ready" -> [r EXCEPT !.pc = "item_save"]]
    /\ UNCHANGED <<orders, items, clock, last, nreq, base, env>>

\* Order.fire: now = timezone.now() and the assignments
FireNow(p) ==
    /\ procs[p].pc = "fire_now"
    /\ procs' = [procs EXCEPT ![p].pc = "fire_save", ![p].now = clock,
                              ![p].inst = FireAssign(@, clock)]
    /\ UNCHANGED <<orders, items, clock, last, nreq, base, env>>

\* Order.fire: self.save(update_fields=[...])
FireSaveStep(p) ==
    /\ procs[p].pc = "fire_save"
    /\ Write(FireSave(DB, procs[p].order, procs[p].inst))
    /\ Goto(p, "fire_items")

\* Order.fire: self.items.filter(...).update(...)
FireItemsStep(p) ==
    /\ procs[p].pc = "fire_items"
    /\ Write(FireItems(DB, procs[p].order, procs[p].now))
    /\ Goto(p, "done")

\* Order.recall: the save, then the cascade
RecallSaveStep(p) ==
    /\ procs[p].pc = "recall_save"
    /\ Write(RecallSave(DB, procs[p].order, procs[p].inst))
    /\ Goto(p, "recall_items")

RecallItemsStep(p) ==
    /\ procs[p].pc = "recall_items"
    /\ Write(RecallItems(DB, procs[p].order))
    /\ Goto(p, "done")

\* Order.mark_served
ServedSaveStep(p) ==
    /\ procs[p].pc = "served_save"
    /\ Write(Order_mark_served(DB, procs[p].order, procs[p].inst, clock))
    /\ Goto(p, "done")

\* Order.cancel: the save, then the cascade
CancelSaveStep(p) ==
    /\ procs[p].pc = "cancel_save"
    /\ Write(CancelSave(DB, procs[p].order, procs[p].inst))
    /\ Goto(p, "cancel_items")

CancelItemsStep(p) ==
    /\ procs[p].pc = "cancel_items"
    /\ Write(CancelItems(DB, procs[p].order))
    /\ Goto(p, "done")

\* views.bump_order: the items' update, then order.mark_ready()
BumpItemsStep(p) ==
    /\ procs[p].pc = "bump_items"
    /\ Write(BumpItems(DB, procs[p].order, clock))
    /\ Goto(p, "ready_save")

\* Order.mark_ready (from bump_order, or from OrderItem.mark_ready)
ReadySaveStep(p) ==
    /\ procs[p].pc = "ready_save"
    /\ Write(Order_mark_ready(DB, procs[p].order, procs[p].inst, clock))
    /\ Goto(p, "done")

\* OrderItem.mark_ready: the item's save
ItemSaveStep(p) ==
    /\ procs[p].pc = "item_save"
    /\ Write(ItemReadySave(DB, procs[p].item, clock))
    /\ Goto(p, "item_query")

\* Mutant of ItemQueryStep: the query sees the tables as they were when the
\* pair of requests began, with the request's own save.
ItemQueryStep_Snapshot(p) ==
    /\ procs[p].pc = "item_query"
    /\ procs' = [procs EXCEPT
                    ![p].pc = IF PendingExists(
                                     ItemReadySave(base.db, procs[p].item, clock),
                                     procs[p].order)
                              THEN "done" ELSE "ready_save",
                    ![p].inst = orders[procs[p].order]]
    /\ UNCHANGED <<orders, items, clock, last, nreq, base, env>>

\* OrderItem.mark_ready: the sibling query on self.order (fetched here)
ItemQueryStep(p) ==
    /\ procs[p].pc = "item_query"
    /\ procs' = [procs EXCEPT
                    ![p].pc = IF PendingExists(DB, procs[p].order)
                              THEN "done" ELSE "ready_save",
                    ![p].inst = orders[procs[p].order]]
    /\ UNCHANGED <<orders, items, clock, last, nreq, base, env>>

\* One order with ConcItems pending items, as api_create_order leaves it
ConcInitDB ==
    LET d0 == [orders |-> <<NewOrder(SessionHub, FormatCounter(1))>>,
               items |-> [k \in 1..ConcItems |->
                            ItemSaveAssign(NewItem(1, MenuPrice, DefaultQty))]]
    IN SaveTotals(d0, 1, d0.orders[1])

InitConc ==
    /\ orders = ConcInitDB.orders
    /\ items = ConcInitDB.items
    /\ clock = 1
    /\ last = [op |-> "api_create_order", order |-> 1, item |-> 0]
    /\ nreq = 0
    /\ procs = <<IdleProc, IdleProc>>
    /\ base = NoBase
    /\ env = NoEnv

\* Requests served one after the other before the two in flight start
Setup(A) == ~base.started /\ nreq < ConcSetup /\ A

NextConc ==
    \/ Tick
    \/ \E o \in DOMAIN orders : Setup(FireOrder(o))
    \/ \E o \in DOMAIN orders : Setup(BumpOrder(o))
    \/ \E i \in DOMAIN items : Setup(BumpItem(i))
    \/ \E i \in DOMAIN items : Setup(CancelItem(i))
    \/ StartPair
    \/ \E p \in Workers : Load(p)
    \/ \E p \in Workers : FireNow(p)
    \/ \E p \in Workers : FireSaveStep(p)
    \/ \E p \in Workers : FireItemsStep(p)
    \/ \E p \in Workers : RecallSaveStep(p)
    \/ \E p \in Workers : RecallItemsStep(p)
    \/ \E p \in Workers : ServedSaveStep(p)
    \/ \E p \in Workers : CancelSaveStep(p)
    \/ \E p \in Workers : CancelItemsStep(p)
    \/ \E p \in Workers : BumpItemsStep(p)
    \/ \E p \in Workers : ReadySaveStep(p)
    \/ \E p \in Workers : ItemSaveStep(p)
    \/ \E p \in Workers : ItemQueryStep(p)

SpecConc == InitConc /\ [][NextConc]_vars

\* --------------------------------------------- order creation in flight
\* views.order_create and views.api_create_order: the number is read
\* (generate_order_number) and the order inserted in two statements; the
\* column has db_index only, no unique constraint, and nothing is locked.
Generate(p, op, hub) ==
    /\ procs[p].pc = "idle"
    /\ Len(orders) + Cardinality({q \in Workers : procs[q].pc = "insert"}) < MaxOrders
    /\ procs' = [procs EXCEPT ![p] =
            [IdleProc EXCEPT !.pc = "insert", !.op = op, !.hub = hub,
                             !.number = generate_order_number(DB, hub)]]
    /\ UNCHANGED <<orders, items, clock, last, nreq, base, env>>

\* order.save() / Order.objects.create(...) and, for the API, its item and
\* totals, visible to the others when the transaction commits
Insert(p) ==
    /\ procs[p].pc = "insert"
    /\ LET o == Len(orders) + 1
           d0 == [DB EXCEPT !.orders =
                    Append(@, NewOrder(procs[p].hub, procs[p].number))]
           d1 == IF procs[p].op = "api_create_order" /\ Len(items) < MaxItems
                 THEN LET d == ItemFullSave(d0, Len(items) + 1,
                                            NewItem(o, MenuPrice, DefaultQty))
                      IN SaveTotals(d, o, d.orders[o])
                 ELSE d0
       IN /\ orders' = d1.orders
          /\ items' = d1.items
          /\ last' = [op |-> procs[p].op, order |-> o, item |-> 0]
    /\ procs' = [procs EXCEPT ![p] = IdleProc]
    /\ UNCHANGED <<clock, nreq, base, env>>

InitNumber ==
    /\ orders = <<>>
    /\ items = <<>>
    /\ clock = 1
    /\ last = [op |-> "init", order |-> 0, item |-> 0]
    /\ nreq = 0
    /\ procs = <<IdleProc, IdleProc>>
    /\ base = NoBase
    /\ env = NoEnv

NextNumber ==
    \/ \E p \in Workers, op \in {"order_create", "api_create_order"}, h \in Hubs :
          Generate(p, op, h)
    \/ \E p \in Workers : Insert(p)
    \/ \E o \in DOMAIN orders : Setup(OrderDelete(o))

SpecNumber == InitNumber /\ [][NextNumber]_vars

\* ------------------------------------------- order creation in sequence
SeqOrders == 4
\* the highest counter of the day when the creations begin (0: no order yet)
StartCounters == {0, 9, 99, 999, 9998}

\* views.order_create, one request after the other
CreateInSequence(hub) ==
    /\ Len(orders) < SeqOrders
    /\ Commit(order_create(DB, hub), "order_create", Len(orders) + 1, 0)

\* The tenant's order with the highest counter of the day; the day's orders
\* below it are left out (the query takes the first row by descending
\* order_number, which none of them is).
InitSequence ==
    /\ \E c \in StartCounters :
          orders = IF c = 0 THEN <<>> ELSE <<NewOrder(SessionHub, FormatCounter(c))>>
    /\ items = <<>>
    /\ clock = 1
    /\ last = [op |-> "init", order |-> 0, item |-> 0]
    /\ nreq = 0
    /\ procs = NoProcs
    /\ base = NoBase
    /\ env = NoEnv

NextSequence ==
    \/ \E h \in Hubs : CreateInSequence(h)
    \/ \E o \in DOMAIN orders : OrderDelete(o)

SpecSequence == InitSequence /\ [][NextSequence]_vars

\* ------------------------------------------------------ OrderItem.save
\* A Decimal in memory carries the digits it was built from; a
\* DecimalField(max_digits=10, decimal_places=2) column holds two.  In these
\* definitions a value in memory is in tenths of a cent and a stored value
\* in cents, as in the tables above.
DecimalPrices == {0, 3500, 3554}
ProductPrices == {0, 250}
\* the names the product has had
ProductNames == {"tea", "chai"}

\* The column keeps two fractional digits (round half even)
ToField(m) ==
    LET q == m \div 10
        r == m % 10
    IN IF r > 5 \/ (r = 5 /\ q % 2 = 1) THEN q + 1 ELSE q

\* A stored value read back into memory
FromField(c) == c * 10

\* OrderItem.save: the assignments, with the name and the price backfilled
\* from the product when the item has none
Item_save(inst, products) ==
    LET a == ItemSaveAssign(inst)
        b == IF a.product_name = "" /\ a.product # 0
             THEN [a EXCEPT !.product_name = products[a.product].name]
             ELSE a
    IN IF b.unit_price = 0 /\ b.product # 0
       THEN [b EXCEPT !.unit_price = FromField(products[b.product].price),
                      !.total = FromField(products[b.product].price) * b.quantity]
       ELSE b

\* The row an instance is written to, and the instance a row is read into
ToRow(inst) ==
    [inst EXCEPT !.unit_price = ToField(@), !.total = ToField(@)]

FromRow(row) ==
    [row EXCEPT !.unit_price = FromField(@), !.total = FromField(@)]

NoInst == [order |-> 0]

\* OrderItem.objects.create(...) of api_create_order: unit_price is
\* Decimal(str(<the JSON value>)), product_id and product_name as sent
\* ("": no name sent)
ItemCreate(price, qty, product, name) ==
    /\ Len(items) < MaxItems - 1
    /\ LET inst == Item_save([NewItem(1, price, qty) EXCEPT !.product = product,
                                                           !.product_name = name],
                             env.products)
       IN /\ env' = [env EXCEPT !.inst = inst]
          /\ items' = Append(items, ToRow(inst))
          /\ last' = [op |-> "item_create", order |-> 1, item |-> Len(items) + 1]
    /\ UNCHANGED <<orders, clock, nreq, procs, base>>

\* views.modify_item_quantity: the item is fetched, changed and saved whole
ItemQuantitySave(i, n) ==
    /\ i \in GetItem(DB)
    /\ LET inst == Item_save([FromRow(items[i]) EXCEPT !.quantity = ClampQuantity(n)],
                             env.products)
       IN /\ env' = [env EXCEPT !.inst = inst]
          /\ items' = [items EXCEPT ![i] = ToRow(inst)]
          /\ last' = [op |-> "modify_item_quantity", order |-> 1, item |-> i]
    /\ UNCHANGED <<orders, clock, nreq, procs, base>>

\* OrderItem.start_preparing / mark_ready / cancel: save(update_fields=
\* ['status', ...]) runs the assignments of save and writes the status only
ItemStatusSave(i, st) ==
    /\ i \in GetItem(DB)
    /\ st # items[i].status
    /\ LET inst == Item_save([FromRow(items[i]) EXCEPT !.status = st], env.products)
       IN /\ env' = [env EXCEPT !.inst = inst]
          /\ items' = [items EXCEPT ![i].status = st]
          /\ last' = [op |-> "item_status_save", order |-> 1, item |-> i]
    /\ UNCHANGED <<orders, clock, nreq, procs, base>>

\* The product's price is changed in the inventory
ProductSetPrice(p) ==
    /\ env.products[1].price # p
    /\ env' = [env EXCEPT !.products[1].price = p]
    /\ UNCHANGED <<orders, items, clock, last, nreq, procs, base>>

\* The product is renamed in the inventory
ProductRename(n) ==
    /\ env.products[1].name # n
    /\ env' = [env EXCEPT !.products[1].name = n]
    /\ UNCHANGED <<orders, items, clock, last, nreq, procs, base>>

InitItem ==
    /\ orders = <<NewOrder(SessionHub, FormatCounter(1))>>
    /\ items = <<>>
    /\ clock = 1
    /\ last = [op |-> "order_create", order |-> 1, item |-> 0]
    /\ nreq = 0
    /\ procs = NoProcs
    /\ base = NoBase
    /\ \E p \in ProductPrices, n \in ProductNames :
          env = [inst |-> NoInst, products |-> <<[price |-> p, name |-> n]>>]

NextItem ==
    \/ \E price \in DecimalPrices, q \in 1..MaxQty, product \in {0, 1},
          n \in {"", "item"} :
          ItemCreate(price, q, product, n)
    \/ \E i \in DOMAIN items, n \in QtyInputs : ItemQuantitySave(i, n)
    \/ \E i \in DOMAIN items, st \in {"preparing", "ready", "cancelled"} :
          ItemStatusSave(i, st)
    \/ \E p \in ProductPrices : ProductSetPrice(p)
    \/ \E n \in ProductNames : ProductRename(n)

SpecItem == InitItem /\ [][NextItem]_vars

\* ------------------------------------------------------ Order.is_delayed
\* In these definitions the clock counts seconds.
SecondsPerMinute == 60
\* alert_threshold_minutes = models.PositiveIntegerField(default=15)
AlertThresholdDefault == 15
Thresholds == {0, 1, AlertThresholdDefault}
MaxSeconds == (AlertThresholdDefault + 2) * SecondsPerMinute

\* Order.elapsed_minutes at the instant `now`
elapsed_minutes(inst, now) ==
    IF inst.fired_at = NoTime THEN 0
    ELSE (now - inst.fired_at) \div SecondsPerMinute

\* OrdersSettings.get_settings: the settings table after get_or_create
get_settings(settings) ==
    IF settings = <<>>
    THEN <<[alert_threshold_minutes |-> AlertThresholdDefault]>>
    ELSE settings

\* Mutant of is_delayed: the threshold itself counts as delayed.
is_delayed_Inclusive(inst, now, settings) ==
    /\ inst.status \in {"pending", "preparing"}
    /\ elapsed_minutes(inst, now) >= get_settings(settings)[1].alert_threshold_minutes

\* Order.is_delayed
is_delayed(inst, now, settings) ==
    /\ inst.status \in {"pending", "preparing"}
    /\ elapsed_minutes(inst, now) > get_settings(settings)[1].alert_threshold_minutes

NoResult == [read |-> FALSE, value |-> FALSE]

\* A second passes; what was read a second ago is gone
Second ==
    /\ clock < MaxSeconds
    /\ clock' = clock + 1
    /\ env' = [env EXCEPT !.result = NoResult]
    /\ UNCHANGED <<orders, items, last, nreq, procs, base>>

\* order.is_delayed is read (the settings row is created when missing)
ReadIsDelayed(o) ==
    /\ ~env.result.read
    /\ env' = [settings |-> get_settings(env.settings),
               result |-> [read |-> TRUE,
                           value |-> is_delayed(orders[o], clock, env.settings)]]
    /\ last' = [op |-> "is_delayed", order |-> o, item |-> 0]
    /\ UNCHANGED <<orders, items, clock, nreq, procs, base>>

\* One order, in any status, fired at second 1 or never; the tenant's
\* settings row missing or holding a threshold
InitDelay ==
    /\ \E st \in OrderStatuses, f \in {NoTime, 1} :
          orders = <<[NewOrder(SessionHub, FormatCounter(1)) EXCEPT !.status = st, !.fired_at = f]>>
    /\ items = <<>>
    /\ clock = 1
    /\ last = [op |-> "init", order |-> 0, item |-> 0]
    /\ nreq = 0
    /\ procs = NoProcs
    /\ base = NoBase
    /\ \E s \in {<<>>} \cup {<<[alert_threshold_minutes |-> th]>> : th \in Thresholds} :
          env = [settings |-> s, result |-> NoResult]

NextDelay ==
    \/ Second
    \/ \E o \in DOMAIN orders : ReadIsDelayed(o)

SpecDelay == InitDelay /\ [][NextDelay]_vars

\* ---------------------------------------------------- station resolution
\* env holds the tenant's stations, its product and category mappings and the
\* inventory's products (a row's key is its index; 0 is None).
NumStations == 2
StationIds == 1..NumStations
\* product 1 may exist, product 2 never does
ProductIds == {1, 2}

\* Mutant of ProductStation_get_station_for_product: station__is_active is
\* not asked for.
ProductStation_get_station_for_product_AnyStation(e, product_id) ==
    LET S == {m \in DOMAIN e.product_map :
                /\ e.product_map[m].product = product_id
                /\ ~e.product_map[m].is_deleted}
    IN IF S = {} THEN 0 ELSE e.product_map[CHOOSE m \in S : TRUE].station

\* ProductStation.get_station_for_product
ProductStation_get_station_for_product(e, product_id) ==
    LET S == {m \in DOMAIN e.product_map :
                /\ e.product_map[m].product = product_id
                /\ e.stations[e.product_map[m].station].is_active
                /\ ~e.product_map[m].is_deleted}
    IN IF S = {} THEN 0 ELSE e.product_map[CHOOSE m \in S : TRUE].station

\* CategoryStation.get_station_for_category
CategoryStation_get_station_for_category(e, category_id) ==
    LET S == {m \in DOMAIN e.category_map :
                /\ e.category_map[m].category = category_id
                /\ e.stations[e.category_map[m].station].is_active
                /\ ~e.category_map[m].is_deleted}
    IN IF S = {} THEN 0 ELSE e.category_map[CHOOSE m \in S : TRUE].station

\* Mutant of get_station_for_product: the category mapping is asked first.
get_station_for_product_CategoryFirst(e, product_id) ==
    LET byCategory ==
            IF product_id \in DOMAIN e.products /\ e.products[product_id].category # 0
            THEN CategoryStation_get_station_for_category(
                     e, e.products[product_id].category)
            ELSE 0
    IN IF byCategory # 0 THEN byCategory
       ELSE ProductStation_get_station_for_product(e, product_id)

\* get_station_for_product (module level): Product.DoesNotExist is swallowed
get_station_for_product(e, product_id) ==
    LET station == ProductStation_get_station_for_product(e, product_id)
    IN IF station # 0 THEN station
       ELSE IF product_id \in DOMAIN e.products /\ e.products[product_id].category # 0
            THEN CategoryStation_get_station_for_category(
                     e, e.products[product_id].category)
            ELSE 0

Routing(e) ==
    [stations |-> e.stations, product_map |-> e.product_map,
     category_map |-> e.category_map, products |-> e.products]

\* A caller resolves the station of a product
Resolve(product_id) ==
    /\ ~env.result.read
    /\ env' = [env EXCEPT !.result =
                  [read |-> TRUE, value |-> get_station_for_product(env, product_id)]]
    /\ last' = [op |-> "get_station_for_product", order |-> 0, item |-> product_id]
    /\ UNCHANGED <<orders, items, clock, nreq, procs, base>>

\* The configuration UI switches a station on or off
StationSetActive(s, active) ==
    /\ env.stations[s].is_active # active
    /\ env' = [env EXCEPT !.stations[s].is_active = active, !.result = NoResult]
    /\ last' = [op |-> "station_set_active", order |-> 0, item |-> 0]
    /\ UNCHANGED <<orders, items, clock, nreq, procs, base>>

\* The mapping tables hold at most one row per product and per category
\* (unique_together), and a product mapping only for a product that exists.
InitRoute ==
    /\ orders = <<>>
    /\ items = <<>>
    /\ clock = 1
    /\ last = [op |-> "init", order |-> 0, item |-> 0]
    /\ nreq = 0
    /\ procs = NoProcs
    /\ base = NoBase
    /\ \E st \in [StationIds -> [is_active : BOOLEAN]],
          pm \in {<<>>} \cup {<<[product |-> 1, station |-> s, is_deleted |-> d]>> :
                                 s \in StationIds, d \in BOOLEAN},
          cm \in {<<>>} \cup {<<[category |-> 1, station |-> s, is_deleted |-> d]>> :
                                 s \in StationIds, d \in BOOLEAN},
          pr \in {<<>>, <<[category |-> 0]>>, <<[category |-> 1]>>} :
          /\ pm # <<>> => pr # <<>>
          /\ env = [stations |-> st, product_map |-> pm, category_map |-> cm,
                    products |-> pr, result |-> NoResult]

NextRoute ==
    \/ \E p \in ProductIds : Resolve(p)
    \/ \E s \in StationIds, a \in BOOLEAN : StationSetActive(s, a)

SpecRoute == InitRoute /\ [][NextRoute]_vars

\* ------------------------------------------------- orders with their items
\* A request names the product of each item: product 1 exists in the
\* inventory, product 2 does not.
ItemLists == {<<p>> : p \in ProductIds} \cup {<<p, q>> : p, q \in ProductIds}

\* The loop over the items of a creation: the rows written until an item
\* raises (its product is not found), `price` the unit price of each product
RECURSIVE CreateItems(_, _, _, _)
CreateItems(db, o, pids, price) ==
    IF pids = <<>> THEN [db |-> db, raised |-> FALSE]
    ELSE IF Head(pids) \notin DOMAIN price THEN [db |-> db, raised |-> TRUE]
    ELSE CreateItems(
             [db EXCEPT !.items = Append(@, ItemSaveAssign(
                 [NewItem(o, price[Head(pids)], DefaultQty) EXCEPT !.product = Head(pids)]))],
             o, Tail(pids), price)

\* views.api_create_order: the body of `with transaction.atomic()`; what it
\* wrote is rolled back when an item raises
api_create_order(db, hub, pids, products) ==
    LET o == Len(db.orders) + 1
        r == CreateItems(order_create(db, hub), o, pids,
                         [p \in DOMAIN products |-> MenuPrice])
    IN IF r.raised THEN [db |-> db, raised |-> TRUE]
       ELSE [db |-> SaveTotals(r.db, o, r.db.orders[o]), raised |-> FALSE]

\* CreateOrder.execute (ai_tools): every statement commits on its own; no
\* hub_id and no order_number are given
CreateOrder_execute(db, pids, products) ==
    LET o == Len(db.orders) + 1
        r == CreateItems([db EXCEPT !.orders = Append(@, NewOrder(0, <<>>))], o, pids,
                         [p \in DOMAIN products |-> products[p].price])
    IN IF r.raised THEN r
       ELSE [db |-> SaveTotals(r.db, o, r.db.orders[o]), raised |-> FALSE]

ApiCreateOrderItems(pids) ==
    /\ Len(orders) < MaxOrders
    /\ Len(items) + Len(pids) <= MaxItems
    /\ LET r == api_create_order(DB, SessionHub, pids, env.products)
       IN Commit(r.db, IF r.raised THEN "api_create_order_raised" ELSE "api_create_order",
                 Len(orders) + 1, 0)

ToolCreateOrder(pids) ==
    /\ Len(orders) < MaxOrders
    /\ Len(items) + Len(pids) <= MaxItems
    /\ LET r == CreateOrder_execute(DB, pids, env.products)
       IN Commit(r.db, IF r.raised THEN "create_order_raised" ELSE "create_order",
                 Len(orders) + 1, 0)

InitCreate ==
    /\ orders = <<>>
    /\ items = <<>>
    /\ clock = 1
    /\ last = [op |-> "init", order |-> 0, item |-> 0]
    /\ nreq = 0
    /\ procs = NoProcs
    /\ base = NoBase
    /\ \E p \in ProductPrices : env = [inst |-> NoInst, products |-> <<[price |-> p]>>]

NextCreate ==
    \/ \E pids \in ItemLists : ApiCreateOrderItems(pids)
    \/ \E pids \in ItemLists : ToolCreateOrder(pids)
    \/ \E o \in DOMAIN orders : OrderDelete(o)
    \/ \E o \in DOMAIN orders : FireOrder(o)

SpecCreate == InitCreate /\ [][NextCreate]_vars

\* ------------------------------------------- OrdersSettings.get_settings
\* env.settings is the table orders_settings (the primary key is the index);
\* procs[p] is the request worker p serves: the tenant, and the instance
\* get_settings returned to it (pk 0: none yet).
\* OrdersSettings(hub_id=hub): the field defaults
DefaultSettings(hub) ==
    [hub |-> hub, alert_threshold_minutes |-> AlertThresholdDefault,
     auto_print_tickets |-> TRUE, show_prep_time |-> TRUE, use_rounds |-> TRUE]

NoCall == [pc |-> "idle", pk |-> 0, inst |-> DefaultSettings(0)]

\* Mutant of SettingsInsert: the table has no unique constraint on hub_id.
SettingsInsert_NoUnique(table, row) == Append(table, row)

\* INSERT under unique_together = [('hub_id',)]: the table is left as it is
\* when the tenant has a row (IntegrityError)
SettingsInsert(table, row) ==
    IF \E k \in DOMAIN table : table[k].hub = row.hub THEN table
    ELSE Append(table, row)

\* get_or_create, first statement (and again after an IntegrityError):
\* all_objects.get(hub_id=hub)
SettingsGet(p, hub) ==
    /\ \/ procs[p].pc = "idle"
       \/ procs[p].pc = "retry" /\ procs[p].inst.hub = hub
    /\ LET found == {k \in DOMAIN env.settings : env.settings[k].hub = hub}
       IN procs' = [procs EXCEPT ![p] =
            IF found = {}
            THEN [pc |-> "create", pk |-> 0, inst |-> DefaultSettings(hub)]
            ELSE LET k == CHOOSE x \in found : TRUE
                 IN [pc |-> "have", pk |-> k, inst |-> env.settings[k]]]
    /\ UNCHANGED <<orders, items, clock, last, nreq, base, env>>

\* get_or_create, second statement: create(hub_id=hub) in a savepoint
SettingsCreate(p) ==
    /\ procs[p].pc = "create"
    /\ LET table == SettingsInsert(env.settings, procs[p].inst)
       IN /\ env' = [env EXCEPT !.settings = table]
          /\ procs' = [procs EXCEPT ![p] =
                IF Len(table) > Len(env.settings)
                THEN [@ EXCEPT !.pc = "have", !.pk = Len(table)]
                ELSE [@ EXCEPT !.pc = "retry"]]
    /\ UNCHANGED <<orders, items, clock, last, nreq, base>>

\* The caller of get_settings: views.settings only reads the instance
\* (data empty); views.settings_save sets the fields sent and saves the
\* instance whole
SettingsCaller(p, data) ==
    /\ procs[p].pc = "have"
    /\ procs' = [procs EXCEPT ![p] = NoCall]
    /\ IF data = <<>> THEN UNCHANGED <<env, nreq>>
       ELSE /\ nreq < MaxReq
            /\ nreq' = nreq + 1
            /\ env' = [env EXCEPT !.settings[procs[p].pk] =
                          [f \in DOMAIN procs[p].inst |->
                              IF f \in DOMAIN data THEN data[f] ELSE procs[p].inst[f]]]
    /\ UNCHANGED <<orders, items, clock, last, base>>

\* what a settings_save request sends
SettingsData ==
    {<<>>} \cup {[alert_threshold_minutes |-> th] : th \in Thresholds}
           \cup {[auto_print_tickets |-> FALSE],
                 [show_prep_time |-> FALSE, use_rounds |-> FALSE]}

InitSettings ==
    /\ orders = <<>>
    /\ items = <<>>
    /\ clock = 1
    /\ last = [op |-> "init", order |-> 0, item |-> 0]
    /\ nreq = 0
    /\ procs = [p \in Workers |-> NoCall]
    /\ base = NoBase
    /\ env = [settings |-> <<>>]

NextSettings ==
    \/ \E p \in Workers, h \in Hubs : SettingsGet(p, h)
    \/ \E p \in Workers : SettingsCreate(p)
    \/ \E p \in Workers, data \in SettingsData : SettingsCaller(p, data)

SpecSettings == InitSettings /\ [][NextSettings]_vars

\* ------------------------------------------------ stations and routing
\* The configuration requests of one tenant on env.stations, env.product_map
\* and env.category_map, and the orders whose items are routed by them;
\* env.listing is the list of items the display was last given.
\* A station row is [is_active, is_deleted]; a mapping row is deleted from its
\* table by the remove_* views (QuerySet.delete).
Priorities == {"normal", "rush", "vip"}

\* A configuration request served to its end
Configure(e, op, a, b) ==
    /\ nreq < MaxReq
    /\ nreq' = nreq + 1
    /\ env' = [e EXCEPT !.result = NoResult, !.listing = <<>>]
    /\ last' = [op |-> op, order |-> a, item |-> b]
    /\ UNCHANGED <<orders, items, clock, procs, base>>

\* views.station_add (s is the next key) and views.station_edit (a station
\* not soft-deleted): the form's is_active is saved
StationSave(s, active) ==
    IF s = Len(env.stations) + 1
    THEN /\ s <= NumStations
         /\ Configure([env EXCEPT !.stations =
                          Append(@, [is_active |-> active, is_deleted |-> FALSE])],
                      "station_add", s, 0)
    ELSE /\ s \in DOMAIN env.stations
         /\ ~env.stations[s].is_deleted
         /\ Configure([env EXCEPT !.stations[s].is_active = active],
                      "station_edit", s, 0)

\* views.station_delete
StationDelete(s) ==
    /\ s \in DOMAIN env.stations
    /\ ~env.stations[s].is_deleted
    /\ Configure([env EXCEPT !.stations[s].is_deleted = TRUE], "station_delete", s, 0)

\* Mutant of AssignStation: create instead of update_or_create.
AssignStation_Create(kind, key, s) ==
    /\ s \in DOMAIN env.stations
    /\ ~env.stations[s].is_deleted
    /\ LET table == IF kind = "product" THEN "product_map" ELSE "category_map"
           row == [f \in {kind, "station", "is_deleted"} |->
                      IF f = kind THEN key ELSE IF f = "station" THEN s ELSE FALSE]
       IN /\ Len(env[table]) < NumStations
          /\ Configure([env EXCEPT ![table] = Append(@, row)],
                       IF kind = "product" THEN "assign_product_station"
                       ELSE "assign_category_station", s, key)

\* Mutant of AssignStation: get_or_create instead of update_or_create, the
\* station of a mapping that exists is left as it is.
AssignStation_KeepOld(kind, key, s) ==
    /\ s \in DOMAIN env.stations
    /\ ~env.stations[s].is_deleted
    /\ LET table == IF kind = "product" THEN "product_map" ELSE "category_map"
           rows == env[table]
           row == [f \in {kind, "station", "is_deleted"} |->
                      IF f = kind THEN key ELSE IF f = "station" THEN s ELSE FALSE]
       IN Configure([env EXCEPT ![table] =
                        IF \E m \in DOMAIN rows : rows[m][kind] = key THEN rows
                        ELSE Append(rows, row)],
                    IF kind = "product" THEN "assign_product_station"
                    ELSE "assign_category_station", s, key)

\* views.assign_product_station (kind "product") and
\* views.assign_category_station (kind "category"): update_or_create on the
\* key, the station in defaults; the key must exist in the inventory (FK)
AssignStation(kind, key, s) ==
    /\ s \in DOMAIN env.stations
    /\ ~env.stations[s].is_deleted
    /\ IF kind = "product" THEN key \in DOMAIN env.products
       ELSE \E p \in DOMAIN env.products : env.products[p].category = key
    /\ LET table == IF kind = "product" THEN "product_map" ELSE "category_map"
           rows == env[table]
           found == {m \in DOMAIN rows : rows[m][kind] = key}
           row == [f \in {kind, "station", "is_deleted"} |->
                      IF f = kind THEN key ELSE IF f = "station" THEN s ELSE FALSE]
       IN Configure([env EXCEPT ![table] =
                        IF found = {} THEN Append(rows, row)
                        ELSE [m \in DOMAIN rows |->
                                 IF m \in found THEN [rows[m] EXCEPT !.station = s]
                                 ELSE rows[m]]],
                    IF kind = "product" THEN "assign_product_station"
                    ELSE "assign_category_station", s, key)

\* views.remove_product_routing and views.remove_category_routing
RemoveRouting(kind, key) ==
    LET table == IF kind = "product" THEN "product_map" ELSE "category_map"
        Kept(row) == row[kind] # key
    IN Configure([env EXCEPT ![table] = SelectSeq(@, Kept)],
                 IF kind = "product" THEN "remove_product_routing"
                 ELSE "remove_category_routing", 0, key)

\* views.api_create_order with one item, auto_route on: the item's station is
\* the one resolved for its product (product_id 0: none sent)
ApiCreateOrderRouted(priority, product_id) ==
    /\ Len(orders) < MaxOrders
    /\ Len(items) < MaxItems
    /\ LET o == Len(orders) + 1
           d0 == [DB EXCEPT !.orders = Append(@,
                    [NewOrder(SessionHub, generate_order_number(DB, SessionHub))
                        EXCEPT !.priority = priority])]
           station == IF product_id # 0 THEN get_station_for_product(env, product_id)
                      ELSE 0
           d1 == [d0 EXCEPT !.items = Append(@, ItemSaveAssign(
                    [NewItem(o, MenuPrice, DefaultQty)
                        EXCEPT !.product = product_id, !.station = station]))]
       IN Commit(SaveTotals(d1, o, d1.orders[o]), "api_create_order", o, 0)

\* order_by('order__priority', 'created_at'): item a sorts before item b.
\* priority is a CharField holding 'normal', 'rush' or 'vip' (here the
\* letters' places in the alphabet), compared as strings; items are created
\* in the order of their keys
SortsBefore(db, a, b) ==
    LET letters == [normal |-> <<14, 15, 18, 13, 1, 12>>, rush |-> <<18, 21, 19, 8>>,
                    vip |-> <<22, 9, 16>>]
        pa == letters[db.orders[db.items[a].order].priority]
        pb == letters[db.orders[db.items[b].order].priority]
    IN StrLess(pa, pb) \/ (pa = pb /\ a < b)

\* views.api_station_items, views.kitchen_display: the items listed for
\* station s, in the order of the listing
api_station_items(db, s) ==
    LET S == {i \in DOMAIN db.items :
                /\ ~db.items[i].is_deleted
                /\ db.items[i].station = s
                /\ db.items[i].status \in {"pending", "preparing"}}
    IN CHOOSE q \in [1..Cardinality(S) -> S] :
          \A j, k \in DOMAIN q : j < k => SortsBefore(db, q[j], q[k])

\* KitchenStation.pending_count
pending_count(db, s) ==
    Cardinality({i \in DOMAIN db.items :
                    /\ db.items[i].station = s
                    /\ db.items[i].status \in {"pending", "preparing"}
                    /\ ~db.items[i].is_deleted})

\* The display asks for the items of a station
StationItems(s) ==
    /\ ~env.result.read
    /\ env' = [env EXCEPT !.listing = api_station_items(DB, s),
                           !.result = [read |-> TRUE, value |-> s]]
    /\ last' = [op |-> "api_station_items", order |-> s, item |-> 0]
    /\ UNCHANGED <<orders, items, clock, nreq, procs, base>>

InitKitchen ==
    /\ orders = <<>>
    /\ items = <<>>
    /\ clock = 1
    /\ last = [op |-> "init", order |-> 0, item |-> 0]
    /\ nreq = 0
    /\ procs = NoProcs
    /\ base = NoBase
    /\ \E c \in {0, 1} :
          env = [stations |-> <<>>, product_map |-> <<>>, category_map |-> <<>>,
                 products |-> <<[category |-> c]>>, result |-> NoResult,
                 listing |-> <<>>]

NextKitchen ==
    \/ \E s \in StationIds, a \in BOOLEAN : StationSave(s, a)
    \/ \E s \in StationIds : StationDelete(s)
    \/ \E s \in StationIds :
          AssignStation("product", 1, s) \/ AssignStation("category", 1, s)
    \/ RemoveRouting("product", 1) \/ RemoveRouting("category", 1)
    \/ \E pr \in Priorities, p \in {0, 1} : ApiCreateOrderRouted(pr, p)
    \/ \E o \in DOMAIN orders : OrderDelete(o)
    \/ \E p \in ProductIds : Resolve(p)
    \/ \E s \in StationIds : StationItems(s)

SpecKitchen == InitKitchen /\ [][NextKitchen]_vars

\* ------------------------------------------------- views.mark_item_ready
\* env.order_ready is the order_ready flag of the last response.
\* not order.items.filter(is_deleted=False, fired_at__isnull=False)
\*     .exclude(status__in=['ready', 'served', 'cancelled']).exists()
all_ready(db, o) ==
    ~\E j \in LiveItems(db, o) :
        /\ db.items[j].fired_at # NoTime
        /\ db.items[j].status \notin {"ready", "served", "cancelled"}

\* views.mark_item_ready: item.mark_ready(), then the flag is computed from
\* the items as they are after it
MarkItemReady(o, i) ==
    /\ o \in GetOrder(DB)
    /\ i \in GetItem(DB) /\ items[i].order = o
    /\ nreq < MaxReq
    /\ nreq' = nreq + 1
    /\ LET d == Item_mark_ready(DB, i, clock)
       IN /\ orders' = d.orders
          /\ items' = d.items
          /\ env' = [order_ready |-> all_ready(d, o)]
    /\ last' = [op |-> "mark_item_ready", order |-> o, item |-> i]
    /\ UNCHANGED <<clock, procs, base>>

InitFlag ==
    /\ orders = <<>>
    /\ items = <<>>
    /\ clock = 1
    /\ last = [op |-> "init", order |-> 0, item |-> 0]
    /\ nreq = 0
    /\ procs = NoProcs
    /\ base = NoBase
    /\ env = [order_ready |-> FALSE]

NextFlag ==
    \/ \E n \in 1..MaxItems, p \in MenuPrices :
          ApiCreateOrder(SessionHub, n, p, DefaultQty)
    \/ \E o \in DOMAIN orders, p \in MenuPrices : AddItem(o, p, DefaultQty)
    \/ \E o \in DOMAIN orders : FireOrder(o)
    \/ \E o \in DOMAIN orders, i \in DOMAIN items : RemoveItem(o, i)
    \/ \E i \in DOMAIN items : CancelItem(i)
    \/ \E i \in DOMAIN items : StartPreparing(i)
    \/ \E o \in DOMAIN orders, i \in DOMAIN items : MarkItemReady(o, i)

SpecFlag == InitFlag /\ [][NextFlag]_vars

\* ------------------------------------------------------------------ claims
\* Items of order o, and those not soft-deleted, in the current tables
ItemsOfOrder(o) == {i \in DOMAIN items : items[i].order = o}
LiveOfOrder(o) == {i \in ItemsOfOrder(o) : ~items[i].is_deleted}
Settled == {"ready", "served", "cancelled"}

\* The step is a request of one of the kinds `ops`, served to its end
Served(ops) == nreq' = nreq + 1 /\ last'.op \in ops

\* C1: when OrderItem.mark_ready has run and no non-deleted item of the order
\* is then outside {ready, served, cancelled}, the order is ready and its
\* ready_at is set.
C1_RollupToReady ==
    [][(/\ Served({"item_mark_ready"})
        /\ \A j \in DOMAIN items' :
              (items'[j].order = last'.order /\ ~items'[j].is_deleted)
                  => items'[j].status \in Settled)
       => /\ orders'[last'.order].status = "ready"
          /\ orders'[last'.order].ready_at # NoTime]_vars

\* An order of MaxItems items, each marked ready by its own request, is ready.
C1_Witness ==
    /\ last.op = "item_mark_ready"
    /\ nreq = MaxItems + 1
    /\ Cardinality(LiveOfOrder(last.order)) = MaxItems
    /\ \A j \in LiveOfOrder(last.order) :
          items[j].status = "ready" /\ items[j].completed_at # NoTime
    /\ orders[last.order].status = "ready"
    /\ orders[last.order].ready_at # NoTime

\* C2: OrderItem.mark_ready with a non-deleted sibling still pending or
\* preparing leaves the order's status and ready_at as they were.
C2_NoRollupWhileActive ==
    [][(/\ Served({"item_mark_ready"})
        /\ \E j \in DOMAIN items :
              /\ j # last'.item
              /\ items[j].order = last'.order
              /\ ~items[j].is_deleted
              /\ items[j].status \in {"pending", "preparing"})
       => /\ orders'[last'.order].status = orders[last'.order].status
          /\ orders'[last'.order].ready_at = orders[last'.order].ready_at]_vars

C2_Witness ==
    /\ last.op = "item_mark_ready"
    /\ items[last.item].status = "ready"
    /\ \E j \in LiveOfOrder(last.order) : items[j].status = "preparing"
    /\ orders[last.order].status = "preparing"
    /\ orders[last.order].ready_at = NoTime

\* C3: Order.fire sets the order to preparing with fired_at = now, moves each
\* non-deleted pending item to preparing with the order's fired_at, and
\* leaves every other item as it was.
C3_FireCascade ==
    [][Served({"fire"})
       => /\ orders'[last'.order].status = "preparing"
          /\ orders'[last'.order].fired_at = clock
          /\ DOMAIN items' = DOMAIN items
          /\ \A i \in DOMAIN items :
                IF /\ items[i].order = last'.order
                   /\ ~items[i].is_deleted
                   /\ items[i].status = "pending"
                THEN items'[i] = [items[i] EXCEPT
                                    !.status = "preparing",
                                    !.fired_at = orders'[last'.order].fired_at]
                ELSE items'[i] = items[i]]_vars

\* A fire that cascaded to one item and passed over a sibling that was not
\* pending.
C3_Witness ==
    /\ last.op = "fire"
    /\ \E i, j \in LiveOfOrder(last.order) :
          /\ items[i].status = "preparing"
          /\ items[i].fired_at = orders[last.order].fired_at
          /\ items[j].status \in {"ready", "cancelled"}
          /\ items[j].fired_at = NoTime
    /\ \E k \in ItemsOfOrder(last.order) :
          items[k].is_deleted /\ items[k].status = "pending"

\* C4: cancelling an order leaves it cancelled with every non-deleted item
\* cancelled, whatever the items' statuses were.
C4_CancelCascade ==
    [][Served({"cancel", "cancel_order"})
       => /\ orders'[last'.order].status = "cancelled"
          /\ \A i \in DOMAIN items' :
                (items'[i].order = last'.order /\ ~items'[i].is_deleted)
                    => items'[i].status = "cancelled"]_vars

\* A cancelled order with an item that had been made ready and one that had
\* only been fired.
C4_Witness ==
    /\ last.op = "cancel_order"
    /\ orders[last.order].status = "cancelled"
    /\ \E i, j \in LiveOfOrder(last.order) :
          /\ items[i].status = "cancelled" /\ items[i].completed_at # NoTime
          /\ items[j].status = "cancelled" /\ items[j].completed_at = NoTime
          /\ items[j].fired_at # NoTime

ItemOnlyOps ==
    {"item_start_preparing", "item_cancel", "modify_item_quantity",
     "update_item_quantity"}

\* C5: start_preparing, cancel and a quantity change of an item change neither
\* an order's status nor the status of any other item.
C5_ItemOpsFrame ==
    [][Served(ItemOnlyOps)
       => /\ \A o \in DOMAIN orders : orders'[o].status = orders[o].status
          /\ \A j \in DOMAIN items :
                j # last'.item => items'[j].status = items[j].status]_vars

\* The last active item of a preparing order was cancelled and the order is
\* still preparing.
C5_Witness ==
    /\ last.op = "item_cancel"
    /\ orders[last.order].status = "preparing"
    /\ Cardinality(LiveOfOrder(last.order)) >= 2
    /\ \A j \in LiveOfOrder(last.order) : items[j].status \in Settled
    /\ \E j \in LiveOfOrder(last.order) : items[j].status = "ready"

\* C6: a cancel of a paid or cancelled order, through any entry point, leaves
\* the order's status and notes and its items' statuses as they were.
C6_CancelPrecondition ==
    [][(/\ Served({"cancel", "cancel_order", "cancel_order_rejected"})
        /\ orders[last'.order].status \in {"paid", "cancelled"})
       => /\ orders'[last'.order].status = orders[last'.order].status
          /\ orders'[last'.order].notes = orders[last'.order].notes
          /\ \A i \in DOMAIN items : items'[i].status = items[i].status]_vars

\* C10: after a request that called calculate_totals, the order's subtotal is
\* the sum of the totals of its non-deleted items and total = subtotal -
\* discount + tax.
TotalsOps == {"api_create_order", "add_item", "update_item_quantity", "remove_item"}

RECURSIVE SumUpTo(_, _)
SumUpTo(o, k) ==
    IF k = 0 THEN 0
    ELSE SumUpTo(o, k - 1)
         + (IF items[k].order = o /\ ~items[k].is_deleted THEN items[k].total ELSE 0)

C10_TotalsAfterCalculate ==
    last.op \in TotalsOps
        => /\ orders[last.order].subtotal = SumUpTo(last.order, Len(items))
           /\ orders[last.order].total =
                 orders[last.order].subtotal - orders[last.order].discount
                     + orders[last.order].tax

\* Totals recomputed after an item was removed, on an order that carries a
\* tax and a discount and still has a priced item.
C10_Witness ==
    /\ last.op = "remove_item"
    /\ orders[last.order].tax # 0
    /\ orders[last.order].discount # 0
    /\ orders[last.order].subtotal > 0
    /\ orders[last.order].total # orders[last.order].subtotal
    /\ \E i \in ItemsOfOrder(last.order) : items[i].is_deleted /\ items[i].total > 0

\* C7: the orders created by concurrent creations for one tenant carry
\* distinct order numbers.
C7_UniqueNumbers ==
    \A a, b \in DOMAIN orders :
        (a # b /\ orders[a].hub = orders[b].hub)
            => orders[a].number # orders[b].number

\* What a row shows of its state: the statuses, the notes and which
\* timestamps are set.
AbsOrder(r) ==
    [status |-> r.status, notes |-> r.notes, fired |-> r.fired_at # NoTime,
     ready |-> r.ready_at # NoTime, served |-> r.served_at # NoTime]

AbsItem(r) ==
    [status |-> r.status, fired |-> r.fired_at # NoTime,
     completed |-> r.completed_at # NoTime]

Abs(db) ==
    [orders |-> [o \in DOMAIN db.orders |-> AbsOrder(db.orders[o])],
     items |-> [i \in DOMAIN db.items |-> AbsItem(db.items[i])]]

PairDone == base.started /\ \A p \in Workers : procs[p].pc = "done"

\* C8: when two requests on one order ran concurrently, the order and its
\* items end as after the two requests served one after the other, in one of
\* the two orders.
C8_Serializable ==
    PairDone =>
        \/ Abs(DB) = Abs(RunView(procs[2], RunView(procs[1], base.db, clock), clock))
        \/ Abs(DB) = Abs(RunView(procs[1], RunView(procs[2], base.db, clock), clock))

FirePairDone == PairDone /\ \A p \in Workers : procs[p].op = "fire"

\* The items the fires cascade to: pending and not deleted when the two began
Cascaded ==
    {i \in DOMAIN base.db.items :
        /\ base.db.items[i].order = procs[1].order
        /\ ~base.db.items[i].is_deleted
        /\ base.db.items[i].status = "pending"}

\* C9 as stated: after two concurrent fires the order is preparing, each item
\* that was pending is preparing, and its fired_at is the order's fired_at.
C9_FireTwiceSameStamp ==
    (FirePairDone /\ procs[1].order = procs[2].order) =>
        /\ orders[procs[1].order].status = "preparing"
        /\ \A i \in Cascaded :
              /\ items[i].status = "preparing"
              /\ items[i].fired_at = orders[procs[1].order].fired_at

\* C9 amended: after two concurrent fires the order is preparing and its
\* fired_at is the reading of one of the two calls; each item that was pending
\* is preparing and all of them carry the reading of one same call (not
\* always the one the order carries); every other item is as it was.
C9_FireTwice ==
    (FirePairDone /\ procs[1].order = procs[2].order) =>
        /\ orders[procs[1].order].status = "preparing"
        /\ orders[procs[1].order].fired_at \in {procs[1].now, procs[2].now}
        /\ \E p \in Workers : \A i \in Cascaded :
              /\ items[i].status = "preparing"
              /\ items[i].fired_at = procs[p].now
        /\ \A i \in DOMAIN items \ Cascaded : items[i] = base.db.items[i]

\* Two fires done, at different instants, with an item cascaded to and an
\* item passed over; the stamps of order and item differ.
C9_Witness ==
    /\ FirePairDone
    /\ procs[1].now # procs[2].now
    /\ Cascaded # {}
    /\ \E i \in Cascaded : items[i].fired_at # orders[procs[1].order].fired_at
    /\ \E j \in DOMAIN items \ Cascaded : items[j].status = "ready"

\* The views that add, remove or change the quantity of an item
ItemChangeOps ==
    {"add_item", "remove_item", "update_item_quantity", "modify_item_quantity"}

\* C11: after an item add, removal or quantity change the order's stored
\* subtotal is the sum of the totals of its non-deleted items and its stored
\* total is subtotal - discount + tax.
C11_TotalsInSync ==
    last.op \in ItemChangeOps
        => /\ orders[last.order].subtotal = SumUpTo(last.order, Len(items))
           /\ orders[last.order].total =
                 orders[last.order].subtotal - orders[last.order].discount
                     + orders[last.order].tax

\* C12: after every save an item's total is unit_price * quantity, in the
\* instance that was saved and in the stored row.
C12_ItemTotal ==
    /\ \A i \in DOMAIN items :
          items[i].total = items[i].unit_price * items[i].quantity
    /\ env.inst # NoInst =>
          env.inst.total = env.inst.unit_price * env.inst.quantity

SinceFired(o) == IF orders[o].fired_at = NoTime THEN 0 ELSE clock - orders[o].fired_at

\* C14: is_delayed is true exactly when the status is pending or preparing
\* and more than the threshold of whole minutes have passed since the order
\* was fired: false up to the last second of minute threshold, true from
\* minute threshold + 1 on, false when never fired and in every other status.
C14_IsDelayed ==
    env.result.read =>
        (env.result.value <=>
            /\ orders[last.order].status \in {"pending", "preparing"}
            /\ orders[last.order].fired_at # NoTime
            /\ SinceFired(last.order) >=
                   (env.settings[1].alert_threshold_minutes + 1) * SecondsPerMinute)

\* Read as delayed at the first second of minute threshold + 1, with the
\* default threshold created by the read.
C14_Witness ==
    /\ env.result.read /\ env.result.value
    /\ orders[last.order].status = "preparing"
    /\ env.settings[1].alert_threshold_minutes = AlertThresholdDefault
    /\ SinceFired(last.order) = (AlertThresholdDefault + 1) * SecondsPerMinute

\* The product's own mappings that are not deleted, and those among them
\* whose station is active
DirectMappings(p) ==
    {m \in DOMAIN env.product_map :
        env.product_map[m].product = p /\ ~env.product_map[m].is_deleted}

DirectActive(p) ==
    {m \in DirectMappings(p) : env.stations[env.product_map[m].station].is_active}

\* The mappings of the product's category with an active station
CategoryActive(p) ==
    {m \in DOMAIN env.category_map :
        /\ p \in DOMAIN env.products
        /\ env.products[p].category # 0
        /\ env.category_map[m].category = env.products[p].category
        /\ ~env.category_map[m].is_deleted
        /\ env.stations[env.category_map[m].station].is_active}

\* C15: resolution returns the station of the product's active mapping when
\* there is one, whatever the category mapping; otherwise the station of the
\* category's active mapping; otherwise (a product that does not exist
\* included) none; and it changes no table.
C15_Resolution ==
    [][\A p \in ProductIds :
          Resolve(p)
              => /\ Routing(env') = Routing(env)
                 /\ orders' = orders /\ items' = items
                 /\ DirectActive(p) # {} =>
                       \E m \in DirectActive(p) :
                           env'.result.value = env.product_map[m].station
                 /\ (DirectActive(p) = {} /\ CategoryActive(p) # {}) =>
                       \E m \in CategoryActive(p) :
                           env'.result.value = env.category_map[m].station
                 /\ (DirectActive(p) = {} /\ CategoryActive(p) = {}) =>
                       env'.result.value = 0]_vars

\* The product's station was returned while its category maps to another
\* active station.
C15_Witness ==
    /\ env.result.read
    /\ last.op = "get_station_for_product"
    /\ \E m \in DirectActive(last.item), c \in CategoryActive(last.item) :
          /\ env.product_map[m].station # env.category_map[c].station
          /\ env.result.value = env.product_map[m].station

\* C16: when the product's mapping points to an inactive station, resolution
\* returns the station of the category's mapping if that station is active,
\* and none otherwise.
C16_InactiveFallsBack ==
    [][\A p \in ProductIds :
          (Resolve(p) /\ DirectMappings(p) # {} /\ DirectActive(p) = {})
              => IF CategoryActive(p) # {}
                 THEN \E c \in CategoryActive(p) :
                          env'.result.value = env.category_map[c].station
                 ELSE env'.result.value = 0]_vars

\* The category's station was returned for a product mapped to an inactive
\* station.
C16_Witness ==
    /\ env.result.read
    /\ last.op = "get_station_for_product"
    /\ DirectMappings(last.item) # {}
    /\ DirectActive(last.item) = {}
    /\ \E c \in CategoryActive(last.item) :
          env.result.value = env.category_map[c].station

\* The counters of the tenant's orders, as integers
CountersOf(hub) ==
    {ParseCounter(orders[o].number) : o \in {x \in DOMAIN orders : orders[x].hub = hub}}

\* C17: a created order's counter is one more than the numerically highest
\* counter of the tenant's orders of the day, or 1 when there is none, also
\* past the padding width.
C17_NextCounter ==
    [][\A h \in Hubs :
          CreateInSequence(h)
              => orders'[Len(orders) + 1].number =
                    FormatCounter(
                        IF CountersOf(h) = {} THEN 1
                        ELSE (CHOOSE m \in CountersOf(h) :
                                 \A n \in CountersOf(h) : n <= m) + 1)]_vars

\* C18: recall of an order that is not ready changes neither the order's
\* status and ready_at nor any item's status and completed_at.
C18_RecallNoOp ==
    [][(Served({"recall"}) /\ orders[last'.order].status # "ready")
       => /\ orders'[last'.order].status = orders[last'.order].status
          /\ orders'[last'.order].ready_at = orders[last'.order].ready_at
          /\ DOMAIN items' = DOMAIN items
          /\ \A i \in DOMAIN items :
                /\ items'[i].status = items[i].status
                /\ items'[i].completed_at = items[i].completed_at]_vars

\* A served order was recalled: it is still served, with its ready_at and its
\* ready item.
C18_Witness ==
    /\ last.op = "recall"
    /\ orders[last.order].status = "served"
    /\ orders[last.order].ready_at # NoTime
    /\ \E i \in LiveOfOrder(last.order) :
          items[i].status = "ready" /\ items[i].completed_at # NoTime

\* C19: recall of a ready order sets it to preparing with ready_at cleared,
\* moves each non-deleted ready item to preparing with completed_at cleared,
\* and leaves every other item as it was.
C19_RecallCascade ==
    [][(Served({"recall"}) /\ orders[last'.order].status = "ready")
       => /\ orders'[last'.order].status = "preparing"
          /\ orders'[last'.order].ready_at = NoTime
          /\ DOMAIN items' = DOMAIN items
          /\ \A i \in DOMAIN items :
                IF /\ items[i].order = last'.order
                   /\ ~items[i].is_deleted
                   /\ items[i].status = "ready"
                THEN items'[i] = [items[i] EXCEPT !.status = "preparing",
                                                  !.completed_at = NoTime]
                ELSE items'[i] = items[i]]_vars

\* After a recall: an item back in preparing that was never fired nor started
\* (it was bumped), beside a cancelled item.
C19_Witness ==
    /\ last.op = "recall"
    /\ orders[last.order].status = "preparing"
    /\ orders[last.order].ready_at = NoTime
    /\ \E i, j \in LiveOfOrder(last.order) :
          /\ items[i].status = "preparing"
          /\ items[i].fired_at = NoTime /\ items[i].started_at = NoTime
          /\ items[i].completed_at = NoTime
          /\ items[j].status = "cancelled"

\* C20: bump_order marks each non-deleted pending or preparing item of the
\* order ready with completed_at set, sets the order ready with ready_at set,
\* leaves no non-deleted item pending or preparing and every other item as it
\* was.
C20_BumpOrder ==
    [][Served({"bump_order"})
       => /\ orders'[last'.order].status = "ready"
          /\ orders'[last'.order].ready_at = clock
          /\ DOMAIN items' = DOMAIN items
          /\ \A i \in DOMAIN items :
                IF /\ items[i].order = last'.order
                   /\ ~items[i].is_deleted
                   /\ items[i].status \in {"pending", "preparing"}
                THEN items'[i] = [items[i] EXCEPT !.status = "ready",
                                                  !.completed_at = clock]
                ELSE items'[i] = items[i]
          /\ \A i \in DOMAIN items' :
                (items'[i].order = last'.order /\ ~items'[i].is_deleted)
                    => items'[i].status \notin {"pending", "preparing"}]_vars

\* After a bump of a fired order: the item that was preparing is ready, the
\* cancelled one is still cancelled.
C20_Witness ==
    /\ last.op = "bump_order"
    /\ orders[last.order].status = "ready"
    /\ orders[last.order].ready_at # NoTime
    /\ \E i, k \in LiveOfOrder(last.order) :
          /\ items[i].status = "ready" /\ items[i].fired_at # NoTime
          /\ items[i].completed_at # NoTime
          /\ items[k].status = "cancelled" /\ items[k].completed_at = NoTime

\* C21: creating an order with items is all-or-nothing: when the creation of
\* an item raises, no new order and no item of it is in the tables afterwards,
\* through api_create_order and through the create_order tool.
C21_CreateAllOrNothing ==
    [][Served({"api_create_order_raised", "create_order_raised"})
          => orders' = orders /\ items' = items]_vars

\* The rows of tenant h in the settings table
SettingsRows(h) == {k \in DOMAIN env.settings : env.settings[k].hub = h}

\* C22: under every interleaving of get_settings calls a tenant never has
\* more than one settings row and has exactly one once a call has returned;
\* the call that creates the row returns the defaults, and every call returns
\* the tenant's row as last saved, never a fresh default record beside it.
C22_SettingsAccessor ==
    /\ [](\A h \in Hubs : Cardinality(SettingsRows(h)) <= 1)
    /\ [][\A p \in Workers :
            (procs'[p].pc = "have" /\ procs[p].pc # "have")
                => /\ {k \in DOMAIN env'.settings :
                          env'.settings[k].hub = procs'[p].inst.hub} = {procs'[p].pk}
                   /\ procs'[p].inst = env'.settings[procs'[p].pk]
                   /\ procs[p].pc = "create"
                          => /\ SettingsRows(procs'[p].inst.hub) = {}
                             /\ procs'[p].inst = DefaultSettings(procs'[p].inst.hub)]_vars

\* A call whose INSERT was rejected is about to read again, while the other
\* worker holds the tenant's row with a threshold saved after the defaults
C22_Witness ==
    /\ procs[1].pc = "retry"
    /\ procs[2].pc = "have"
    /\ procs[2].inst.hub = procs[1].inst.hub
    /\ procs[2].inst.alert_threshold_minutes # AlertThresholdDefault

\* The rows of a mapping table for one key
MappingsOf(kind, key) ==
    LET rows == IF kind = "product" THEN env.product_map ELSE env.category_map
    IN {m \in DOMAIN rows : rows[m][kind] = key}

\* C23: after any sequence of assignments and removals a product, and a
\* category, has at most one mapping; assigning a product that has a mapping
\* leaves the number of mappings as it is and puts the new station in it.
C23_OneMapping ==
    /\ [](\A kind \in {"product", "category"}, key \in ProductIds :
             Cardinality(MappingsOf(kind, key)) <= 1)
    /\ [][\A p \in ProductIds, s \in StationIds :
            (AssignStation("product", p, s) /\ MappingsOf("product", p) # {})
                => /\ Len(env'.product_map) = Len(env.product_map)
                   /\ \A m \in MappingsOf("product", p) :
                         env'.product_map[m] = [env.product_map[m] EXCEPT !.station = s]]_vars

\* The product was assigned to station 2 after two stations were added and
\* two more configuration requests were served, and it has one mapping
C23_Witness ==
    /\ last = [op |-> "assign_product_station", order |-> 2, item |-> 1]
    /\ nreq = 4
    /\ env.category_map = <<>>
    /\ env.product_map = <<[product |-> 1, station |-> 2, is_deleted |-> FALSE]>>

\* C24: a resolution right after assign_product_station(p, s), s active,
\* returns s; right after remove_product_routing(p) it returns the station of
\* the category's mapping (a mapping to an active station, as in C15), or
\* none when the category has none.
C24_ReadsLatestMapping ==
    [][\A p \in ProductIds :
          Resolve(p)
              => /\ (/\ last.op = "assign_product_station"
                     /\ last.item = p
                     /\ env.stations[last.order].is_active)
                        => env'.result.value = last.order
                 /\ (last.op = "remove_product_routing" /\ last.item = p)
                        => IF CategoryActive(p) # {}
                           THEN \E c \in CategoryActive(p) :
                                    env'.result.value = env.category_map[c].station
                           ELSE env'.result.value = 0]_vars

\* Station 2 was resolved for the product once it was assigned to it, the
\* category being mapped to station 1 (four requests: two stations added, two
\* assignments)
C24_Witness ==
    /\ last = [op |-> "get_station_for_product", order |-> 0, item |-> 1]
    /\ nreq = 4
    /\ env.category_map = <<[category |-> 1, station |-> 1, is_deleted |-> FALSE]>>
    /\ env.product_map = <<[product |-> 1, station |-> 2, is_deleted |-> FALSE]>>
    /\ env.result = [read |-> TRUE, value |-> 2]

\* C25: after station_delete the station's row is still there, its is_active
\* is false, and the items that referenced it still do.
C25_StationDeleteDeactivates ==
    [][\A s \in StationIds :
          StationDelete(s)
              => /\ Len(env'.stations) = Len(env.stations)
                 /\ ~env'.stations[s].is_active
                 /\ items' = items]_vars

\* C26: in the listing of a station every item of a rush or vip order comes
\* before every item of a normal order, items of equal priority come oldest
\* first, and the listing changes no item.
C26_ListingOrder ==
    [][\A s \in StationIds :
          StationItems(s)
              => /\ items' = items
                 /\ LET q == env'.listing
                        pri(i) == orders[items[i].order].priority
                    IN \A j, k \in DOMAIN q :
                          /\ (pri(q[j]) \in {"rush", "vip"} /\ pri(q[k]) = "normal")
                                => j < k
                          /\ (pri(q[j]) = pri(q[k]) /\ q[j] < q[k]) => j < k]_vars

\* C27: no item of a soft-deleted order is in a station's listing or counted
\* in a station's pending_count.
C27_DeletedOrderItemsGone ==
    \A o \in DOMAIN orders :
        orders[o].is_deleted
            => \A s \in StationIds :
                  LET q == api_station_items(DB, s)
                      without == [DB EXCEPT !.items =
                                    [i \in DOMAIN @ |->
                                        IF @[i].order = o
                                        THEN [@[i] EXCEPT !.is_deleted = TRUE]
                                        ELSE @[i]]]
                  IN /\ \A k \in DOMAIN q : items[q[k]].order # o
                     /\ pending_count(DB, s) = pending_count(without, s)

\* C28: once an item is created, no later step (a save for a status or a
\* quantity change, a change of the product's name or price) changes its
\* product_name or its unit_price, whatever its unit_price, 0 included.
C28_Snapshot ==
    [][\A i \in DOMAIN items :
          /\ items'[i].product_name = items[i].product_name
          /\ items'[i].unit_price = items[i].unit_price]_vars

\* C29: once an order is cancelled or paid, no fire, mark_ready, mark_served,
\* recall, bump_order or mark_ready of one of its items changes its status.
C29_TerminalAbsorbing ==
    [][Served({"fire", "mark_ready", "mark_served", "recall", "bump_order",
               "item_mark_ready"})
          => \A o \in DOMAIN orders :
                orders[o].status \in {"cancelled", "paid"}
                    => orders'[o].status = orders[o].status]_vars

\* No ready order has a non-deleted item that is pending or preparing
RollupConsistent(ords, its) ==
    \A o \in DOMAIN ords :
        ords[o].status = "ready"
            => \A i \in DOMAIN its :
                  (its[i].order = o /\ ~its[i].is_deleted)
                      => its[i].status \notin {"pending", "preparing"}

\* C30: add_item, fire, an item's mark_ready, Order.mark_ready, bump_order and
\* recall keep every ready order without a non-deleted pending or preparing
\* item.
C30_RollupConsistency ==
    [][(/\ Served({"add_item", "fire", "item_mark_ready", "mark_ready", "bump_order",
                   "recall"})
        /\ RollupConsistent(orders, items))
          => RollupConsistent(orders', items')]_vars

\* Order o is fired and preparing, and after the step none of its non-deleted
\* items is pending or preparing and at least one is ready
LastActiveSettled(o) ==
    /\ orders[o].status = "preparing"
    /\ orders[o].fired_at # NoTime
    /\ \A j \in DOMAIN items' :
          (items'[j].order = o /\ ~items'[j].is_deleted)
              => items'[j].status \notin {"pending", "preparing"}
    /\ \E j \in DOMAIN items' :
          items'[j].order = o /\ ~items'[j].is_deleted /\ items'[j].status = "ready"

\* C31 (as claimed): when marking an item ready, cancelling an item or
\* removing an item leaves a fired, preparing order with no non-deleted item
\* pending or preparing and at least one ready, the order's status is ready.
C31_NeverStuck ==
    [][(Served({"item_mark_ready", "item_cancel", "remove_item"})
        /\ LastActiveSettled(last'.order))
          => orders'[last'.order].status = "ready"]_vars

\* C31 (amended): when marking an item ready leaves a fired, preparing order
\* in that situation the order's status is ready; when cancelling or removing
\* an item does, the order's status is left as it was.
C31_StuckOnlyByCancelOrRemove ==
    [][/\ (Served({"item_mark_ready"}) /\ LastActiveSettled(last'.order))
            => orders'[last'.order].status = "ready"
       /\ (Served({"item_cancel", "remove_item"}) /\ LastActiveSettled(last'.order))
            => orders'[last'.order].status = orders[last'.order].status]_vars

\* The last active item of a fired order was marked ready, a sibling being
\* cancelled: the order is ready
C31_Witness ==
    /\ last.op = "item_mark_ready"
    /\ orders[last.order].status = "ready"
    /\ orders[last.order].fired_at # NoTime
    /\ items[last.item].fired_at # NoTime
    /\ \E j \in LiveOfOrder(last.order) : items[j].status = "cancelled"
    /\ \A j \in LiveOfOrder(last.order) : items[j].status \in {"ready", "cancelled"}

\* The two requests in flight are OrderItem.mark_ready calls on the last two
\* active items of one preparing order
LastTwoMarkedReady ==
    /\ base.started
    /\ \A p \in Workers : procs[p].op = "item_mark_ready"
    /\ procs[1].item # procs[2].item
    /\ procs[1].order = procs[2].order
    /\ base.db.orders[procs[1].order].status = "preparing"
    /\ {i \in LiveItems(base.db, procs[1].order) :
            base.db.items[i].status \in {"pending", "preparing"}}
         = {procs[1].item, procs[2].item}

\* C32: when the last two active items of a preparing order are marked ready
\* by two concurrent OrderItem.mark_ready calls, the order is ready once both
\* calls have completed, however their statements interleave.
C32_RollupNotLost ==
    (LastTwoMarkedReady /\ PairDone)
        => /\ orders[procs[1].order].status = "ready"
           /\ orders[procs[1].order].ready_at # NoTime

\* Both calls have completed, the first item saved before the second, and the
\* order was marked ready when the second was
C32_Witness ==
    /\ LastTwoMarkedReady
    /\ PairDone
    /\ \A p \in Workers : items[procs[p].item].status = "ready"
    /\ items[procs[1].item].completed_at < items[procs[2].item].completed_at
    /\ orders[procs[1].order].status = "ready"
    /\ orders[procs[1].order].ready_at = items[procs[2].item].completed_at

\* C33: in every reachable state an order with both fired_at and ready_at set
\* has fired_at <= ready_at (prep_time_minutes is never negative).
C33_FiredBeforeReady ==
    \A o \in DOMAIN orders :
        (orders[o].fired_at # NoTime /\ orders[o].ready_at # NoTime)
            => orders[o].fired_at <= orders[o].ready_at

\* C34: in every reachable state a ready order has ready_at set, a served
\* order has served_at set, a preparing order has fired_at set and a pending
\* order has fired_at unset.
C34_StatusTimestampCoherence ==
    \A o \in DOMAIN orders :
        /\ orders[o].status = "ready" => orders[o].ready_at # NoTime
        /\ orders[o].status = "served" => orders[o].served_at # NoTime
        /\ orders[o].status = "preparing" => orders[o].fired_at # NoTime
        /\ orders[o].status = "pending" => orders[o].fired_at = NoTime

\* C35: once an order is soft-deleted, no request changes its status or its
\* fired_at, ready_at and served_at.
C35_DeletedOrderFrozen ==
    [][\A o \in DOMAIN orders :
          orders[o].is_deleted
              => /\ orders'[o].status = orders[o].status
                 /\ orders'[o].fired_at = orders[o].fired_at
                 /\ orders'[o].ready_at = orders[o].ready_at
                 /\ orders'[o].served_at = orders[o].served_at]_vars

\* C36: a resolution returns no station, or a station that is active and not
\* soft-deleted.
C36_ResolvesLiveStation ==
    [][\A p \in ProductIds :
          Resolve(p)
              => \/ env'.result.value = 0
                 \/ /\ env.stations[env'.result.value].is_active
                    /\ ~env.stations[env'.result.value].is_deleted]_vars

\* C37: the order_ready flag of a mark_item_ready response is true exactly
\* when the order's stored status is ready after the call.
C37_FlagAgreesWithRollup ==
    last.op = "mark_item_ready"
        => (env.order_ready <=> orders[last.order].status = "ready")

\* C38: the number given to an order created after the others is the number
\* of no order of its tenant, soft-deleted ones included, and it is the first
\* number of the day when the tenant has no order, whatever the orders of the
\* other tenants.
C38_NumberNeverReused ==
    [][Served({"order_create"})
          => LET new == orders'[last'.order]
                 own == {x \in DOMAIN orders : orders[x].hub = new.hub}
             IN /\ \A x \in own : orders[x].number # new.number
                /\ own = {} => new.number = FormatCounter(1)]_vars

\* C39: fire, recall and bump_order leave every cancelled item cancelled.
C39_CancelledItemStays ==
    [][Served({"fire", "recall", "bump_order"})
          => \A i \in DOMAIN items :
                items[i].status = "cancelled" => items'[i].status = "cancelled"]_vars

\* A fired order was bumped after one of its items was cancelled: the item is
\* still cancelled beside a sibling the bump made ready
C39_Witness ==
    /\ last.op = "bump_order"
    /\ orders[last.order].fired_at # NoTime
    /\ \E i, j \in LiveOfOrder(last.order) :
          /\ items[i].status = "cancelled"
          /\ items[i].completed_at = NoTime
          /\ items[j].status = "ready"
          /\ items[j].fired_at # NoTime

====
